---- MODULE Spec2Model ----
(***************************************************************************)
(* EPUB importer worker: the import request handler (fragmenter,           *)
(* orchestrator, archive writer), the generator call with its timeout,     *)
(* and the EPUB structure helpers (container resolver, path               *)
(* normalization, spine extraction).                                       *)
(*                                                                         *)
(* Strings of the program that are inspected character by character are    *)
(* modelled as sequences of one-character strings.                         *)
(***************************************************************************)
EXTENDS Integers, Sequences, FiniteSets, TLC

(***************************************************************************)
(* Bounds of the model.                                                    *)
(***************************************************************************)
\* html documents in one uploaded archive (import request)
MaxDocs == 2
\* largest value of the form fields targetWords / maxFragments / startFrom
MaxField == 3
\* form fields range from -NegField
NegField == 1
\* length of the free texts handed to chunkWords alone
MaxTextLen == 4
\* iterations the chunkWords loop is followed beyond one per word
ExtraIter == 1
\* milliseconds that pass in one step of the clock
TickMs == 32500
\* steps the clock is followed beyond the timeout
ExtraTicks == 1
\* length of the paths handed to normalizePath
MaxPathLen == 3
MaxSpine == 3
MaxEntries == 3
MaxPieces == 3
MaxResume == 2
MaxInvocations == 3

(***************************************************************************)
(* Program constants.                                                      *)
(***************************************************************************)
DefaultTargetWords == 1200
DefaultMaxFragments == 3
DefaultStartFrom == 1
StatusOk == 200
StatusPartial == 206
StatusBadRequest == 400
StatusError == 500
\* fetchWithTimeout(..., 65000)
TimeoutMs == 65000
\* combinedText.length < 200
MinTextLength == 200

(***************************************************************************)
(* JavaScript primitives.                                                  *)
(***************************************************************************)
Min(a, b) == IF a < b THEN a ELSE b
Max(a, b) == IF a > b THEN a ELSE b

\* characters matched by \s
WS == {" ", "\n", "\t"}

\* Array.prototype.slice(start, end) for integer arguments
jsSlice(arr, start, end) ==
  LET len  == Len(arr)
      from == IF start < 0 THEN Max(len + start, 0) ELSE Min(start, len)
      to   == IF end < 0 THEN Max(len + end, 0) ELSE Min(end, len)
  IN  IF from < to THEN SubSeq(arr, from + 1, to) ELSE <<>>

\* first position >= p of s holding a character of set C, 0 when there is none
firstIn(s, C, p) ==
  IF \E k \in p..Len(s) : s[k] \in C
  THEN CHOOSE k \in p..Len(s) : s[k] \in C /\ \A m \in p..(k - 1) : s[m] \notin C
  ELSE 0

\* first position >= p of s not holding whitespace, Len(s)+1 when there is none
skipWs(s, p) ==
  IF \E k \in p..Len(s) : s[k] \notin WS
  THEN CHOOSE k \in p..Len(s) : s[k] \notin WS /\ \A m \in p..(k - 1) : s[m] \in WS
  ELSE Len(s) + 1

\* String.prototype.split(/\s+/): the pieces between maximal whitespace runs,
\* empty pieces at the ends included
RECURSIVE splitFrom(_, _, _)
splitFrom(s, p, acc) ==
  LET q == firstIn(s, WS, p)
  IN  IF q = 0 THEN Append(acc, SubSeq(s, p, Len(s)))
      ELSE splitFrom(s, skipWs(s, q), Append(acc, SubSeq(s, p, q - 1)))

splitWs(s) == splitFrom(s, 1, <<>>)

\* Array.prototype.filter(Boolean) on an array of strings
filterBoolean(arr) == SelectSeq(arr, LAMBDA w : w # <<>>)

\* Array.prototype.join(sep)
RECURSIVE join(_, _)
join(arr, sep) ==
  IF arr = <<>> THEN <<>>
  ELSE IF Len(arr) = 1 THEN arr[1]
  ELSE arr[1] \o sep \o join(Tail(arr), sep)

\* a form field is <<>> (absent or empty) or <<n>> (the text of the integer n);
\* Number(form.get(name) || dflt)
fieldNumber(f, dflt) == IF f = <<>> THEN dflt ELSE f[1]

\* mutant: the entry name ignores the index
lessonName_NoIndex(index) == "lesson.json"

\* `lesson_${x.index}.json`
lessonName(index) == "lesson_" \o ToString(index) \o ".json"

ErrorName == "import_error.json"

\* zipFiles[name] = data
put(zf, name, data) ==
  [n \in DOMAIN zf \cup {name} |-> IF n = name THEN data ELSE zf[n]]

EmptyFiles == [n \in {} |-> <<>>]

(***************************************************************************)
(* State.                                                                  *)
(***************************************************************************)
VARIABLES
  pc,            \* position of the handler / function under study
  form,          \* the request: file, stripped documents, form fields
  combinedText,  \* text handed to chunkWords
  targetWords,   \* parsed targetWords
  maxFragments,  \* parsed maxFragments
  startFrom,     \* parsed startFrom
  words,         \* chunkWords: words
  ci,            \* chunkWords: loop variable i
  allChunks,     \* chunkWords: chunks
  chunks,        \* operative chunks
  i,             \* orchestrator loop variable
  lessons,       \* accumulated results
  partialError,  \* <<>> (null) or <<[fragment, error]>>
  calls,         \* history: generator calls, [index, text, outcome]
  timer,         \* fetchWithTimeout: "idle", "armed" or "cleared"
  clock,         \* milliseconds since the generator call in flight began
  zipFiles,      \* output archive entries
  status,        \* response: 0 (none yet) or the HTTP status
  baseDir,       \* normalizePath: baseDir
  href,          \* normalizePath: href
  npath,         \* normalizePath: the result
  npath2,        \* the result normalized again against the empty base
  files,         \* the unzipped upload: entries [path, data] in archive order
  opfPath,       \* result of findOpfPath
  htmlPaths,     \* result of extractSpineHtmlPaths
  html,          \* stripHtml: html
  stripped,      \* stripHtml: the result
  history        \* earlier invocations of the handler: [startFrom, maxFragments, calls, partialError]

vars == <<pc, form, combinedText, targetWords, maxFragments, startFrom, words,
          ci, allChunks, chunks, i, lessons, partialError, calls, timer,
          clock, zipFiles, status, baseDir, href, npath, npath2, files,
          opfPath, htmlPaths, html, stripped, history>>

chunkVars == <<words, ci, allChunks>>
loopVars == <<chunks, i, lessons, partialError, calls, timer, clock>>
reqVars == <<form, targetWords, maxFragments, startFrom>>
pathVars == <<baseDir, href, npath, npath2>>
stripVars == <<html, stripped>>
epubVars == <<files, opfPath, htmlPaths>>
importVars == <<pc, reqVars, combinedText, chunkVars, loopVars, zipFiles, status>>

(***************************************************************************)
(* Inputs.                                                                 *)
(***************************************************************************)
\* outputs of stripHtml (trimmed, single spaces) for the archive's documents
DocTexts == { <<>>, <<"a">>, <<"a", " ", "b">>, <<"b", "b", " ", "a", " ", "b">> }

RECURSIVE SeqsUpTo(_, _)
SeqsUpTo(S, n) ==
  IF n = 0 THEN {<<>>}
  ELSE LET prev == SeqsUpTo(S, n - 1)
       IN  prev \cup {Append(p, x) : p \in {q \in prev : Len(q) = n - 1}, x \in S}

Fields == {<<>>} \cup {<<n>> : n \in (0 - NegField)..MaxField}

Forms ==
  [file : {"none", "corrupt"}, docs : {<<>>},
   targetWords : {<<>>}, maxFragments : {<<>>}, startFrom : {<<>>}]
  \cup
  [file : {"epub"}, docs : SeqsUpTo(DocTexts, MaxDocs),
   targetWords : Fields, maxFragments : Fields, startFrom : Fields]

TextChars == {"a", "b", " ", "\n"}

\* longer texts: five words over mixed whitespace, whitespace at both ends
ExampleTexts ==
  { <<"a", "\t", "b", "b", " ", " ", "a", "\n", "b", " ", "a">>,
    <<"\n", "\n", "a", " ", "b", " ", "a", "b", " ">> }

Texts == SeqsUpTo(TextChars, MaxTextLen) \cup ExampleTexts

(***************************************************************************)
(* chunkWords (src/src/index.ts 30-37), one step per loop iteration.       *)
(***************************************************************************)
\* const words = text.split(/\s+/).filter(Boolean); const chunks = []; i = 0
ChunkSplit ==
  /\ pc = "chunkWords"
  /\ words' = filterBoolean(splitWs(combinedText))
  /\ allChunks' = <<>>
  /\ ci' = 0
  /\ pc' = "chunkLoop"
  /\ UNCHANGED <<stripVars, history, pathVars, epubVars, reqVars, combinedText, loopVars, zipFiles, status>>

\* chunks.push(words.slice(i, i + targetWords).join(" "))
chunkPush(cs, ws, k, tw) == Append(cs, join(jsSlice(ws, k, k + tw), <<" ">>))

\* mutant: the loop steps one word too far
chunkAdvance_Skip(k, tw) == k + tw + 1

\* i += targetWords
chunkAdvance(k, tw) == k + tw

\* the loop is followed for at most ExtraIter iterations beyond one per word
ChunkLoop ==
  /\ pc = "chunkLoop"
  /\ ci < Len(words)
  /\ Len(allChunks) < Len(words) + ExtraIter
  /\ allChunks' = chunkPush(allChunks, words, ci, targetWords)
  /\ ci' = chunkAdvance(ci, targetWords)
  /\ UNCHANGED <<stripVars, history, pathVars, epubVars, pc, reqVars, combinedText, words, loopVars, zipFiles, status>>

\* return chunks
ChunkReturn ==
  /\ pc = "chunkLoop"
  /\ ~(ci < Len(words))
  /\ pc' = "chunked"
  /\ UNCHANGED <<stripVars, history, pathVars, epubVars, reqVars, combinedText, chunkVars, loopVars, zipFiles, status>>

(***************************************************************************)
(* The import request handler (src/src/index.ts 158-244).                  *)
(***************************************************************************)
\* combinedText += "\n\n" + stripHtml(...) over the html files
RECURSIVE combine(_)
combine(docs) ==
  IF docs = <<>> THEN <<>>
  ELSE <<"\n", "\n">> \o docs[1] \o combine(Tail(docs))

parseMaxFragments(f) == Max(1, fieldNumber(f, DefaultMaxFragments))
parseTargetWords(f) == fieldNumber(f, DefaultTargetWords)
parseStartFrom(f) == Max(1, fieldNumber(f, DefaultStartFrom))

\* lines 172-176: no file in the form
RejectNoFile ==
  /\ pc = "request"
  /\ form.file = "none"
  /\ status' = StatusBadRequest
  /\ pc' = "done"
  /\ UNCHANGED <<stripVars, history, pathVars, epubVars, reqVars, combinedText, chunkVars, loopVars, zipFiles>>

\* line 190 throws on an undecodable archive; lines 241-243 answer 500
RejectCorrupt ==
  /\ pc = "request"
  /\ form.file = "corrupt"
  /\ status' = StatusError
  /\ pc' = "done"
  /\ UNCHANGED <<stripVars, history, pathVars, epubVars, reqVars, combinedText, chunkVars, loopVars, zipFiles>>

\* lines 178-199: parse the fields, unzip, strip and concatenate the documents
Receive ==
  /\ pc = "request"
  /\ form.file = "epub"
  /\ maxFragments' = parseMaxFragments(form.maxFragments)
  /\ targetWords' = parseTargetWords(form.targetWords)
  /\ startFrom' = parseStartFrom(form.startFrom)
  /\ combinedText' = combine(form.docs)
  /\ pc' = "chunkWords"
  /\ UNCHANGED <<stripVars, history, pathVars, epubVars, form, chunkVars, loopVars, zipFiles, status>>

\* mutant: startFrom taken as a 0-based offset
window_OffByOne(all, sf, mf) == jsSlice(all, sf, sf + mf)

\* line 202
window(all, sf, mf) == jsSlice(all, sf - 1, sf - 1 + mf)

\* lines 202-205
Window ==
  /\ pc = "chunked"
  /\ chunks' = window(allChunks, startFrom, maxFragments)
  /\ lessons' = <<>>
  /\ partialError' = <<>>
  /\ i' = 0
  /\ pc' = "loop"
  /\ UNCHANGED <<stripVars, history, pathVars, epubVars, reqVars, combinedText, chunkVars, calls, timer, clock,
                 zipFiles, status>>

\* mutant: fragments numbered from 1 within the window
fragmentIndex_FromOne(sf, k) == k + 1

\* line 208
fragmentIndex(sf, k) == sf + k

\* lines 207-212 and 39-43: the loop condition holds, callOpenAIForLesson
\* is entered, fetchWithTimeout arms the timer and starts the fetch
GenStart ==
  /\ pc = "loop"
  /\ i < Len(chunks)
  /\ calls' = Append(calls, [index |-> fragmentIndex(startFrom, i),
                             text |-> chunks[i + 1], outcome |-> "pending"])
  /\ timer' = "armed"
  /\ clock' = 0
  /\ pc' = "fetch"
  /\ UNCHANGED <<stripVars, history, pathVars, epubVars, reqVars, combinedText, chunkVars, chunks, i, lessons,
                 partialError, zipFiles, status>>

InFlight == pc \in {"fetch", "text", "json"}

\* time passes while a call is in flight; an armed timer expires at TimeoutMs
Tick ==
  /\ InFlight
  /\ clock < TimeoutMs + ExtraTicks * TickMs
  /\ timer = "armed" => clock < TimeoutMs
  /\ clock' = clock + TickMs
  /\ UNCHANGED <<stripVars, history, pathVars, epubVars, pc, reqVars, combinedText, chunkVars, chunks, i, lessons,
                 partialError, calls, timer, zipFiles, status>>

\* lines 44-46: finally { clearTimeout(timeout) } once the fetch has settled
timerAfterFetch == "cleared"

\* line 43: the fetch resolves with the response's status line and headers
FetchResolves ==
  /\ pc = "fetch"
  /\ timer' = timerAfterFetch
  /\ \E ok \in BOOLEAN : pc' = IF ok THEN "json" ELSE "text"
  /\ UNCHANGED <<stripVars, history, pathVars, epubVars, reqVars, combinedText, chunkVars, chunks, i, lessons,
                 partialError, calls, clock, zipFiles, status>>

settle(cs, outcome) == [cs EXCEPT ![Len(cs)].outcome = outcome]

\* mutant: a fragment is skipped after a success
nextAfterSuccess_Skip(k) == k + 2

\* after lessons.push the for statement runs i++
nextAfterSuccess(k) == k + 1

\* lines 73-76 and 214: the body arrives, holds a lesson, and is pushed
GenReturn ==
  /\ pc = "json"
  /\ lessons' = Append(lessons, [index |-> fragmentIndex(startFrom, i),
                                 lesson |-> chunks[i + 1]])
  /\ calls' = settle(calls, "ok")
  /\ i' = nextAfterSuccess(i)
  /\ timer' = "idle"
  /\ clock' = 0
  /\ pc' = "loop"
  /\ UNCHANGED <<stripVars, history, pathVars, epubVars, reqVars, combinedText, chunkVars, chunks, partialError,
                 zipFiles, status>>

\* mutant: the catch block does not break
pcAfterFailure_NoBreak == "loop"

\* after the catch block: break
pcAfterFailure == "write"

\* lines 215-218: the call threw
catch(cause) ==
  /\ partialError' = <<[fragment |-> fragmentIndex(startFrom, i),
                        error |-> cause]>>
  /\ calls' = settle(calls, "fail")
  /\ timer' = "idle"
  /\ clock' = 0
  /\ pc' = pcAfterFailure
  /\ UNCHANGED <<stripVars, history, pathVars, epubVars, reqVars, combinedText, chunkVars, chunks, i, lessons,
                 zipFiles, status>>

\* line 41: the timer expires, controller.abort() rejects the pending fetch
TimerFires ==
  /\ pc = "fetch"
  /\ timer = "armed"
  /\ clock >= TimeoutMs
  /\ catch("AbortError")

\* line 43: the fetch rejects (network failure)
FetchRejects ==
  /\ pc = "fetch"
  /\ catch("TypeError")

\* lines 68-71: the error body arrives, the call throws the status
ErrorStatus ==
  /\ pc = "text"
  /\ catch("OpenAI error")

\* lines 69, 73: the body cannot be read, or is not JSON
BodyFails ==
  /\ pc \in {"text", "json"}
  /\ catch("body")

\* lines 74-76: the body has no output_text, or output_text is not JSON
BadOutput ==
  /\ pc = "json"
  /\ catch("output_text")

\* line 207: the loop condition fails
LoopExit ==
  /\ pc = "loop"
  /\ ~(i < Len(chunks))
  /\ pc' = "write"
  /\ UNCHANGED <<stripVars, history, pathVars, epubVars, reqVars, combinedText, chunkVars, loopVars, zipFiles, status>>

\* lines 223-225
RECURSIVE writeLessons(_, _)
writeLessons(zf, ls) ==
  IF ls = <<>> THEN zf
  ELSE writeLessons(put(zf, lessonName(ls[1].index), ls[1].lesson), Tail(ls))

\* lines 227-229
writeError(zf, pe) ==
  IF pe # <<>> THEN put(zf, ErrorName, pe[1]) ELSE zf

\* line 234
responseStatus(pe) == IF pe # <<>> THEN StatusPartial ELSE StatusOk

\* lines 221-239
Respond ==
  /\ pc = "write"
  /\ zipFiles' = writeError(writeLessons(EmptyFiles, lessons), partialError)
  /\ status' = responseStatus(partialError)
  /\ pc' = "done"
  /\ UNCHANGED <<stripVars, history, pathVars, epubVars, reqVars, combinedText, chunkVars, loopVars>>

(***************************************************************************)
(* Specification of one import request.                                    *)
(***************************************************************************)
BlankChunk ==
  /\ words = <<>>
  /\ ci = 0
  /\ allChunks = <<>>

BlankLoop ==
  /\ chunks = <<>>
  /\ i = 0
  /\ lessons = <<>>
  /\ partialError = <<>>
  /\ calls = <<>>
  /\ timer = "idle"
  /\ clock = 0
  /\ zipFiles = EmptyFiles
  /\ status = 0

BlankStrip ==
  /\ html = <<>>
  /\ stripped = <<>>
  /\ history = <<>>

BlankPath ==
  /\ baseDir = <<>>
  /\ href = <<>>
  /\ npath = <<>>
  /\ npath2 = <<>>

BlankEpub ==
  /\ files = <<>>
  /\ opfPath = <<>>
  /\ htmlPaths = <<>>

NoForm ==
  [file |-> "none", docs |-> <<>>, targetWords |-> <<>>,
   maxFragments |-> <<>>, startFrom |-> <<>>]

Init ==
  /\ pc = "request"
  /\ form \in Forms
  /\ combinedText = <<>>
  /\ targetWords = 0
  /\ maxFragments = 0
  /\ startFrom = 0
  /\ BlankChunk
  /\ BlankStrip
  /\ BlankLoop
  /\ BlankPath
  /\ BlankEpub

Next ==
  \/ RejectNoFile
  \/ RejectCorrupt
  \/ Receive
  \/ ChunkSplit
  \/ ChunkLoop
  \/ ChunkReturn
  \/ Window
  \/ GenStart
  \/ Tick
  \/ FetchResolves
  \/ GenReturn
  \/ TimerFires
  \/ FetchRejects
  \/ ErrorStatus
  \/ BodyFails
  \/ BadOutput
  \/ LoopExit
  \/ Respond

Spec == Init /\ [][Next]_vars

(***************************************************************************)
(* Specification of chunkWords alone, over free texts and targetWords.     *)
(***************************************************************************)
InitChunk ==
  /\ pc = "chunkWords"
  /\ form = NoForm
  /\ combinedText \in Texts
  /\ targetWords \in (0 - NegField)..MaxField
  /\ maxFragments = 0
  /\ startFrom = 0
  /\ BlankChunk
  /\ BlankStrip
  /\ BlankLoop
  /\ BlankPath
  /\ BlankEpub

NextChunk ==
  \/ ChunkSplit
  \/ ChunkLoop
  \/ ChunkReturn

SpecChunk == InitChunk /\ [][NextChunk]_vars

(***************************************************************************)
(* Successive invocations of the index.ts handler on one book.             *)
(***************************************************************************)
ResumeFields == {<<n>> : n \in 1..MaxResume}

\* the stripped text of the book's one document
BookText == <<"b", "b", " ", "a", " ", "b">>

Invocation ==
  [startFrom |-> startFrom, maxFragments |-> maxFragments, calls |-> calls,
   partialError |-> partialError]

InitResume ==
  /\ pc = "request"
  /\ form \in [file : {"epub"}, docs : {<<BookText>>},
               targetWords : {<<1>>, <<2>>}, maxFragments : ResumeFields,
               startFrom : ResumeFields]
  /\ combinedText = <<>>
  /\ targetWords = 0
  /\ maxFragments = 0
  /\ startFrom = 0
  /\ BlankChunk
  /\ BlankStrip
  /\ BlankLoop
  /\ BlankPath
  /\ BlankEpub

\* a further request with the same upload and targetWords and new startFrom
\* and maxFragments fields; the handler starts from line 158 with fresh
\* locals. Invocations are followed up to the first one after a failure.
Resume ==
  /\ pc = "done"
  /\ Len(history) + 1 < MaxInvocations
  /\ \A k \in 1..Len(history) : history[k].partialError = <<>>
  /\ history' = Append(history, Invocation)
  /\ \E sf \in ResumeFields, mf \in ResumeFields :
       form' = [form EXCEPT !.startFrom = sf, !.maxFragments = mf]
  /\ pc' = "request"
  /\ combinedText' = <<>>
  /\ targetWords' = 0
  /\ maxFragments' = 0
  /\ startFrom' = 0
  /\ words' = <<>>
  /\ ci' = 0
  /\ allChunks' = <<>>
  /\ chunks' = <<>>
  /\ i' = 0
  /\ lessons' = <<>>
  /\ partialError' = <<>>
  /\ calls' = <<>>
  /\ timer' = "idle"
  /\ clock' = 0
  /\ zipFiles' = EmptyFiles
  /\ status' = 0
  /\ UNCHANGED <<stripVars, pathVars, epubVars>>

NextResume ==
  \/ Receive
  \/ ChunkSplit
  \/ ChunkLoop
  \/ ChunkReturn
  \/ Window
  \/ GenStart
  \/ FetchResolves
  \/ GenReturn
  \/ ErrorStatus
  \/ LoopExit
  \/ Respond
  \/ Resume

SpecResume == InitResume /\ [][NextResume]_vars

(***************************************************************************)
(* normalizePath (src/unnamed/part_002 262-278).                           *)
(***************************************************************************)
\* String.prototype.split(c) for a one-character separator
RECURSIVE splitCharFrom(_, _, _, _, _)
splitCharFrom(s, c, k, cur, acc) ==
  IF k > Len(s) THEN Append(acc, cur)
  ELSE IF s[k] = c
       THEN splitCharFrom(s, c, k + 1, <<>>, Append(acc, cur))
       ELSE splitCharFrom(s, c, k + 1, Append(cur, s[k]), acc)

splitChar(s, c) == splitCharFrom(s, c, 1, <<>>, <<>>)

\* line 264: href.split("#")[0]
stripFragment(h) == splitChar(h, "#")[1]

\* lines 272-276: one segment against the stack; pop() of [] leaves it empty
resolveSegment(out, p) ==
  IF p = <<".">> THEN out
  ELSE IF p = <<".", ".">>
       THEN (IF out = <<>> THEN out ELSE SubSeq(out, 1, Len(out) - 1))
       ELSE Append(out, p)

RECURSIVE resolveSegments(_, _)
resolveSegments(out, parts) ==
  IF parts = <<>> THEN out
  ELSE resolveSegments(resolveSegment(out, parts[1]), Tail(parts))

normalizePath(b, h) ==
  LET clean == stripFragment(h)
      full  == b \o clean
      parts == filterBoolean(splitChar(full, "/"))
  IN  join(resolveSegments(<<>>, parts), <<"/">>)

PathChars == {"a", ".", "/", "#"}
PathStrings == SeqsUpTo(PathChars, MaxPathLen)

\* lines 287-289: the directory of the package document, "" or ending in "/"
BaseDirs ==
  {d \in PathStrings : d = <<>> \/ d[Len(d)] = "/"} \cup {<<"a", "/", "b", "/">>}

Hrefs == PathStrings \cup {<<".", ".", "/", "c", ".", "h", "t", "m", "l">>}

InitPath ==
  /\ pc = "normalizePath"
  /\ baseDir \in BaseDirs
  /\ href \in Hrefs
  /\ npath = <<>>
  /\ npath2 = <<>>
  /\ form = NoForm
  /\ combinedText = <<>>
  /\ targetWords = 0
  /\ maxFragments = 0
  /\ startFrom = 0
  /\ BlankChunk
  /\ BlankStrip
  /\ BlankLoop
  /\ BlankEpub

\* normalizePath(baseDir, href)
Normalize ==
  /\ pc = "normalizePath"
  /\ npath' = normalizePath(baseDir, href)
  /\ pc' = "normalized"
  /\ UNCHANGED <<stripVars, history, baseDir, href, npath2, epubVars, reqVars, combinedText,
                 chunkVars, loopVars, zipFiles, status>>

\* normalizePath("", npath)
Renormalize ==
  /\ pc = "normalized"
  /\ npath2' = normalizePath(<<>>, npath)
  /\ pc' = "renormalized"
  /\ UNCHANGED <<stripVars, history, baseDir, href, npath, epubVars, reqVars, combinedText,
                 chunkVars, loopVars, zipFiles, status>>

NextPath ==
  \/ Normalize
  \/ Renormalize

SpecPath == InitPath /\ [][NextPath]_vars

(***************************************************************************)
(* Pattern matching of the EPUB handler (src/unnamed/part_002).            *)
(***************************************************************************)
UpperCase == <<"A", "B", "C", "D", "E", "F", "G", "H", "I", "J", "K", "L", "M",
               "N", "O", "P", "Q", "R", "S", "T", "U", "V", "W", "X", "Y", "Z">>
LowerCase == <<"a", "b", "c", "d", "e", "f", "g", "h", "i", "j", "k", "l", "m",
               "n", "o", "p", "q", "r", "s", "t", "u", "v", "w", "x", "y", "z">>
Digits == {"0", "1", "2", "3", "4", "5", "6", "7", "8", "9"}

\* String.prototype.toLowerCase on one character; the i flag of a pattern
lower(c) ==
  IF \E k \in 1..26 : UpperCase[k] = c
  THEN LowerCase[CHOOSE k \in 1..26 : UpperCase[k] = c]
  ELSE c

\* characters matched by \w
WordChars ==
  {UpperCase[k] : k \in 1..26} \cup {LowerCase[k] : k \in 1..26}
    \cup Digits \cup {"_"}

\* the lower-case literal lit matches s at position p, ignoring case
matchesAtCI(s, p, lit) ==
  /\ p >= 1
  /\ p + Len(lit) - 1 <= Len(s)
  /\ \A k \in 1..Len(lit) : lower(s[p + k - 1]) = lit[k]

\* s.toLowerCase().endsWith(lit); /lit$/i
endsWithCI(s, lit) == matchesAtCI(s, Len(s) - Len(lit) + 1, lit)

\* /\.(xhtml|html|htm)$/i
hasTextExt(p) ==
  \/ endsWithCI(p, <<".", "x", "h", "t", "m", "l">>)
  \/ endsWithCI(p, <<".", "h", "t", "m", "l">>)
  \/ endsWithCI(p, <<".", "h", "t", "m">>)

\* files[path]: the entry's position in the archive, 0 when undefined
entryOf(fs, path) ==
  IF \E k \in 1..Len(fs) : fs[k].path = path
  THEN CHOOSE k \in 1..Len(fs) : fs[k].path = path
  ELSE 0

(***************************************************************************)
(* findOpfPath (src/unnamed/part_002 243-254).                             *)
(***************************************************************************)
\* lines 244-246: Object.keys(files).find(...), 0 when undefined
containerEntry(fs) ==
  IF \E k \in 1..Len(fs) : endsWithCI(fs[k].path, <<"m", "e", "t", "a", "-", "i", "n", "f", "/", "c", "o", "n", "t", "a", "i", "n", "e", "r", ".", "x", "m", "l">>)
  THEN CHOOSE k \in 1..Len(fs) :
         /\ endsWithCI(fs[k].path, <<"m", "e", "t", "a", "-", "i", "n", "f", "/", "c", "o", "n", "t", "a", "i", "n", "e", "r", ".", "x", "m", "l">>)
         /\ \A m \in 1..(k - 1) : ~endsWithCI(fs[m].path, <<"m", "e", "t", "a", "-", "i", "n", "f", "/", "c", "o", "n", "t", "a", "i", "n", "e", "r", ".", "x", "m", "l">>)
  ELSE 0

\* /full-path="([^"]+)"/i matches xml at position p
fullPathAt(xml, p) ==
  /\ matchesAtCI(xml, p, <<"f", "u", "l", "l", "-", "p", "a", "t", "h", "=", "\"">>)
  /\ firstIn(xml, {"\""}, p + Len(<<"f", "u", "l", "l", "-", "p", "a", "t", "h", "=", "\"">>)) > p + Len(<<"f", "u", "l", "l", "-", "p", "a", "t", "h", "=", "\"">>)

\* line 250: xml.match(...): <<>> (null) or <<group 1>>
fullPathMatch(xml) ==
  IF \E p \in 1..Len(xml) : fullPathAt(xml, p)
  THEN LET p == CHOOSE q \in 1..Len(xml) :
                  fullPathAt(xml, q) /\ \A m \in 1..(q - 1) : ~fullPathAt(xml, m)
           b == p + Len(<<"f", "u", "l", "l", "-", "p", "a", "t", "h", "=", "\"">>)
       IN  <<SubSeq(xml, b, firstIn(xml, {"\""}, b) - 1)>>
  ELSE <<>>

\* the value returned, or the error thrown
findOpfPath(fs) ==
  LET c == containerEntry(fs)
  IN  IF c = 0 THEN [ok |-> FALSE, value |-> <<>>, error |-> "container.xml not found"]
      ELSE LET match == fullPathMatch(fs[c].data)
           IN  IF match = <<>>
               THEN [ok |-> FALSE, value |-> <<>>,
                     error |-> "OPF path not found in container.xml"]
               ELSE [ok |-> TRUE, value |-> match[1], error |-> ""]

(***************************************************************************)
(* getAttr and extractSpineHtmlPaths (src/unnamed/part_002 256-327).       *)
(***************************************************************************)
Quotes == {"\"", "'"}

\* new RegExp(`${name}\\s*=\\s*["']([^"']+)["']`, "i") matches tag at p
attrEq(tag, name, p) == skipWs(tag, p + Len(name))
attrOpen(tag, name, p) == skipWs(tag, attrEq(tag, name, p) + 1)
attrClose(tag, name, p) == firstIn(tag, Quotes, attrOpen(tag, name, p) + 1)

attrAt(tag, name, p) ==
  /\ matchesAtCI(tag, p, name)
  /\ attrEq(tag, name, p) <= Len(tag)
  /\ tag[attrEq(tag, name, p)] = "="
  /\ attrOpen(tag, name, p) <= Len(tag)
  /\ tag[attrOpen(tag, name, p)] \in Quotes
  /\ attrClose(tag, name, p) > attrOpen(tag, name, p) + 1

\* lines 256-260: <<>> (null) or the captured value
getAttr(tag, name) ==
  IF \E p \in 1..Len(tag) : attrAt(tag, name, p)
  THEN LET p == CHOOSE q \in 1..Len(tag) :
                  attrAt(tag, name, q) /\ \A m \in 1..(q - 1) : ~attrAt(tag, name, m)
       IN  SubSeq(tag, attrOpen(tag, name, p) + 1, attrClose(tag, name, p) - 1)
  ELSE <<>>

\* /<name\b/i matches xml at position p
tagOpensAt(xml, name, p) ==
  /\ matchesAtCI(xml, p, <<"<">> \o name)
  /\ p + Len(name) = Len(xml) \/ xml[p + Len(name) + 1] \notin WordChars

\* xml.match(/<name\b[^>]*>/gi) || []
RECURSIVE matchTagsFrom(_, _, _, _)
matchTagsFrom(xml, name, p, acc) ==
  IF \E k \in p..Len(xml) : tagOpensAt(xml, name, k)
  THEN LET k == CHOOSE k \in p..Len(xml) :
                  tagOpensAt(xml, name, k)
                  /\ \A m \in p..(k - 1) : ~tagOpensAt(xml, name, m)
           q == firstIn(xml, {">"}, k + Len(name) + 1)
       IN  IF q = 0 THEN acc
           ELSE matchTagsFrom(xml, name, q + 1, Append(acc, SubSeq(xml, k, q)))
  ELSE acc

matchTags(xml, name) == matchTagsFrom(xml, name, 1, <<>>)

\* lines 287-289
baseDirOf(path) ==
  IF \E k \in 1..Len(path) : path[k] = "/"
  THEN SubSeq(path, 1, CHOOSE k \in 1..Len(path) :
                         path[k] = "/" /\ \A m \in (k + 1)..Len(path) : path[m] # "/")
  ELSE <<>>

\* line 292: manifestMap = {} is a plain object, so besides its own keys it
\* answers the property names of Object.prototype with values that are
\* truthy and no strings
InheritedKeys ==
  { <<"c", "o", "n", "s", "t", "r", "u", "c", "t", "o", "r">>, <<"t", "o", "S", "t", "r", "i", "n", "g">>, <<"v", "a", "l", "u", "e", "O", "f">>, <<"h", "a", "s", "O", "w", "n", "P", "r", "o", "p", "e", "r", "t", "y">>, <<"i", "s", "P", "r", "o", "t", "o", "t", "y", "p", "e", "O", "f">>, <<"p", "r", "o", "p", "e", "r", "t", "y", "I", "s", "E", "n", "u", "m", "e", "r", "a", "b", "l", "e">>,
    <<"t", "o", "L", "o", "c", "a", "l", "e", "S", "t", "r", "i", "n", "g">>, <<"_", "_", "p", "r", "o", "t", "o", "_", "_">> }

\* lines 292-298: manifestMap, later declarations of an id replacing earlier;
\* an assignment of a string to __proto__ leaves the object as it is
RECURSIVE manifestOf(_, _)
manifestOf(tags, acc) ==
  IF tags = <<>> THEN acc
  ELSE LET id == getAttr(tags[1], <<"i", "d">>)
           hr == getAttr(tags[1], <<"h", "r", "e", "f">>)
       IN  manifestOf(Tail(tags),
                      IF id # <<>> /\ hr # <<>> /\ id # <<"_", "_", "p", "r", "o", "t", "o", "_", "_">>
                      THEN put(acc, id, hr) ELSE acc)

\* lines 308-312: manifestMap[idref] is an inherited value, which passes
\* `if (!href) continue`, and normalizePath then calls href.split on it
stepThrows(manifest, tag) ==
  LET idref == getAttr(tag, <<"i", "d", "r", "e", "f">>)
  IN  idref \in InheritedKeys /\ idref \notin DOMAIN manifest

\* lines 303-316: one itemref against the manifest and the archive
spineStep(fs, dir, manifest, acc, tag) ==
  LET idref == getAttr(tag, <<"i", "d", "r", "e", "f">>)
  IN  IF idref = <<>> THEN acc
      ELSE IF idref \notin DOMAIN manifest THEN acc
      ELSE LET fullPath == normalizePath(dir, manifest[idref])
           IN  IF ~hasTextExt(fullPath) THEN acc
               ELSE IF entryOf(fs, fullPath) # 0 THEN Append(acc, fullPath)
               ELSE acc

RECURSIVE spineOf(_, _, _, _, _)
spineOf(fs, dir, manifest, tags, acc) ==
  IF tags = <<>> THEN acc
  ELSE spineOf(fs, dir, manifest, Tail(tags),
               spineStep(fs, dir, manifest, acc, tags[1]))

\* collation rank of a character: punctuation, then digits, then letters
\* with the two cases of a letter together
PunctOrder == <<"_", "-", ".", "/", "#">>
DigitOrder == <<"0", "1", "2", "3", "4", "5", "6", "7", "8", "9">>

primaryRank(c) ==
  IF \E k \in 1..Len(PunctOrder) : PunctOrder[k] = c
  THEN CHOOSE k \in 1..Len(PunctOrder) : PunctOrder[k] = c
  ELSE IF \E k \in 1..10 : DigitOrder[k] = c
  THEN 10 + (CHOOSE k \in 1..10 : DigitOrder[k] = c)
  ELSE IF \E k \in 1..26 : LowerCase[k] = lower(c)
  THEN 30 + (CHOOSE k \in 1..26 : LowerCase[k] = lower(c))
  ELSE 60

\* lexicographic order of two sequences of numbers
RECURSIVE lexLess(_, _)
lexLess(a, b) ==
  IF b = <<>> THEN FALSE
  ELSE IF a = <<>> THEN TRUE
  ELSE IF a[1] # b[1] THEN a[1] < b[1]
  ELSE lexLess(Tail(a), Tail(b))

primaryKey(a) == [k \in 1..Len(a) |-> primaryRank(a[k])]
caseKey(a) == [k \in 1..Len(a) |-> IF lower(a[k]) = a[k] THEN 0 ELSE 1]

\* a.localeCompare(b) < 0: letters compare without case first, a lower-case
\* letter before its upper-case letter on a tie
localeLess(a, b) ==
  IF primaryKey(a) # primaryKey(b) THEN lexLess(primaryKey(a), primaryKey(b))
  ELSE lexLess(caseKey(a), caseKey(b))

\* lines 320-322: the fallback
fallbackPaths(fs) ==
  SortSeq(SelectSeq([k \in 1..Len(fs) |-> fs[k].path], hasTextExt), localeLess)

\* lines 306-312: the loop over the itemrefs throws a TypeError
spineThrows(opfXml) ==
  LET manifest == manifestOf(matchTags(opfXml, <<"i", "t", "e", "m">>), EmptyFiles)
      tags     == matchTags(opfXml, <<"i", "t", "e", "m", "r", "e", "f">>)
  IN  \E k \in 1..Len(tags) : stepThrows(manifest, tags[k])

\* lines 284-326, given the text of the package document
extractSpineHtmlPaths(fs, path, opfXml) ==
  LET dir        == baseDirOf(path)
      manifest   == manifestOf(matchTags(opfXml, <<"i", "t", "e", "m">>), EmptyFiles)
      spinePaths == spineOf(fs, dir, manifest, matchTags(opfXml, <<"i", "t", "e", "m", "r", "e", "f">>), <<>>)
  IN  IF Len(spinePaths) = 0 THEN fallbackPaths(fs) ELSE spinePaths

(***************************************************************************)
(* The EPUB import handler (src/unnamed/part_002 201-398).                 *)
(***************************************************************************)
\* String.prototype.trim
trim(t) ==
  IF \A k \in 1..Len(t) : t[k] \in WS THEN <<>>
  ELSE SubSeq(t, skipWs(t, 1),
              CHOOSE e \in 1..Len(t) :
                t[e] \notin WS /\ \A m \in (e + 1)..Len(t) : t[m] \in WS)

\* lines 336-342; a document's data is the text stripHtml returns for it
RECURSIVE combineDocs(_, _)
combineDocs(fs, paths) ==
  IF paths = <<>> THEN <<>>
  ELSE (IF entryOf(fs, paths[1]) = 0 THEN <<>>
        ELSE <<"\n", "\n">> \o fs[entryOf(fs, paths[1])].data)
       \o combineDocs(fs, Tail(paths))

\* lines 219-231: not multipart, no file, or not named *.epub
P2Reject ==
  /\ pc = "p2request"
  /\ form.file \in {"notMultipart", "none", "notEpub"}
  /\ status' = StatusBadRequest
  /\ pc' = "done"
  /\ UNCHANGED <<stripVars, history, pathVars, epubVars, reqVars, combinedText, chunkVars, loopVars,
                 zipFiles>>

\* line 241 throws on an undecodable archive; lines 395-397 answer 500
P2Corrupt ==
  /\ pc = "p2request"
  /\ form.file = "corrupt"
  /\ status' = StatusError
  /\ pc' = "done"
  /\ UNCHANGED <<stripVars, history, pathVars, epubVars, reqVars, combinedText, chunkVars, loopVars,
                 zipFiles>>

\* lines 233-241
P2Unzip ==
  /\ pc = "p2request"
  /\ form.file = "epub"
  /\ pc' = "findOpfPath"
  /\ UNCHANGED <<stripVars, history, pathVars, epubVars, reqVars, combinedText, chunkVars, loopVars,
                 zipFiles, status>>

\* line 329: findOpfPath returns
FindOpfOk ==
  /\ pc = "findOpfPath"
  /\ findOpfPath(files).ok
  /\ opfPath' = findOpfPath(files).value
  /\ pc' = "extractSpine"
  /\ UNCHANGED <<stripVars, history, pathVars, files, htmlPaths, reqVars, combinedText, chunkVars,
                 loopVars, zipFiles, status>>

\* lines 247, 251: findOpfPath throws; lines 395-397 answer 500
FindOpfThrows ==
  /\ pc = "findOpfPath"
  /\ ~findOpfPath(files).ok
  /\ status' = StatusError
  /\ pc' = "done"
  /\ UNCHANGED <<stripVars, history, pathVars, epubVars, reqVars, combinedText, chunkVars, loopVars,
                 zipFiles>>

\* line 284: strFromU8(files[opfPath]); for an undefined entry fflate hands
\* undefined to TextDecoder.decode, which returns "", or, without a
\* TextDecoder, throws
opfTexts(fs, path) ==
  IF entryOf(fs, path) = 0 THEN {<<>>} ELSE {fs[entryOf(fs, path)].data}

\* line 330: extractSpineHtmlPaths returns a non-empty list
ExtractSpine ==
  /\ pc = "extractSpine"
  /\ \E opfXml \in opfTexts(files, opfPath) :
       /\ ~spineThrows(opfXml)
       /\ extractSpineHtmlPaths(files, opfPath, opfXml) # <<>>
       /\ htmlPaths' = extractSpineHtmlPaths(files, opfPath, opfXml)
  /\ pc' = "combine"
  /\ UNCHANGED <<stripVars, history, pathVars, files, opfPath, reqVars, combinedText, chunkVars,
                 loopVars, zipFiles, status>>

\* lines 332-334: neither the spine nor the fallback gave a document
NoSpineHtml ==
  /\ pc = "extractSpine"
  /\ \E opfXml \in opfTexts(files, opfPath) :
       /\ ~spineThrows(opfXml)
       /\ extractSpineHtmlPaths(files, opfPath, opfXml) = <<>>
  /\ status' = StatusError
  /\ pc' = "done"
  /\ UNCHANGED <<stripVars, history, pathVars, epubVars, reqVars, combinedText, chunkVars, loopVars,
                 zipFiles>>

\* lines 306-312 throw; lines 395-397 answer 500
SpineThrows ==
  /\ pc = "extractSpine"
  /\ \E opfXml \in opfTexts(files, opfPath) : spineThrows(opfXml)
  /\ status' = StatusError
  /\ pc' = "done"
  /\ UNCHANGED <<stripVars, history, pathVars, epubVars, reqVars, combinedText, chunkVars, loopVars,
                 zipFiles>>

\* line 284: decoding the undefined entry throws
OpfDecodeThrows ==
  /\ pc = "extractSpine"
  /\ entryOf(files, opfPath) = 0
  /\ status' = StatusError
  /\ pc' = "done"
  /\ UNCHANGED <<stripVars, history, pathVars, epubVars, reqVars, combinedText, chunkVars, loopVars,
                 zipFiles>>

\* mutant: the floor is not applied
tooShort_NoFloor(text) == Len(text) < 0

\* line 344: combinedText.length < 200
tooShort(text) == Len(text) < MinTextLength

\* lines 336-346: the extracted text is shorter than the floor
TooShort ==
  /\ pc = "combine"
  /\ tooShort(trim(combineDocs(files, htmlPaths)))
  /\ status' = StatusBadRequest
  /\ pc' = "done"
  /\ UNCHANGED <<stripVars, history, pathVars, epubVars, reqVars, combinedText, chunkVars, loopVars,
                 zipFiles>>

\* lines 336-348: chunkWords(combinedText, 1200) is entered
Combine ==
  /\ pc = "combine"
  /\ ~tooShort(trim(combineDocs(files, htmlPaths)))
  /\ combinedText' = trim(combineDocs(files, htmlPaths))
  /\ targetWords' = DefaultTargetWords
  /\ pc' = "chunkWords"
  /\ UNCHANGED <<stripVars, history, pathVars, epubVars, form, maxFragments, startFrom, chunkVars,
                 loopVars, zipFiles, status>>

\* lines 348-349: .slice(0, 3)
P2Window ==
  /\ pc = "chunked"
  /\ chunks' = jsSlice(allChunks, 0, DefaultMaxFragments)
  /\ lessons' = <<>>
  /\ i' = 0
  /\ pc' = "p2loop"
  /\ UNCHANGED <<stripVars, history, pathVars, epubVars, reqVars, combinedText, chunkVars,
                 partialError, calls, timer, clock, zipFiles, status>>

\* lines 351-354: the generator is called for fragment i+1
P2GenStart ==
  /\ pc = "p2loop"
  /\ i < Len(chunks)
  /\ calls' = Append(calls, [index |-> i + 1, text |-> chunks[i + 1],
                             outcome |-> "pending"])
  /\ pc' = "p2await"
  /\ UNCHANGED <<stripVars, history, pathVars, epubVars, reqVars, combinedText, chunkVars, chunks, i,
                 lessons, partialError, timer, clock, zipFiles, status>>

\* line 355
P2GenReturn ==
  /\ pc = "p2await"
  /\ lessons' = Append(lessons, [index |-> i + 1, lesson |-> chunks[i + 1]])
  /\ calls' = settle(calls, "ok")
  /\ i' = i + 1
  /\ pc' = "p2loop"
  /\ UNCHANGED <<stripVars, history, pathVars, epubVars, reqVars, combinedText, chunkVars, chunks,
                 partialError, timer, clock, zipFiles, status>>

\* line 354 throws: no catch in the loop, lines 395-397 answer 500
P2GenThrow ==
  /\ pc = "p2await"
  /\ calls' = settle(calls, "fail")
  /\ status' = StatusError
  /\ pc' = "done"
  /\ UNCHANGED <<stripVars, history, pathVars, epubVars, reqVars, combinedText, chunkVars, chunks, i,
                 lessons, partialError, timer, clock, zipFiles>>

\* `${lessonDir}/f${x.index}.json` for the default series and book ids
p2LessonName(index) ==
  "data/standalone/book/ch1/lessons/f" \o ToString(index) \o ".json"

RECURSIVE p2WriteLessons(_, _)
p2WriteLessons(zf, ls) ==
  IF ls = <<>> THEN zf
  ELSE p2WriteLessons(put(zf, p2LessonName(ls[1].index), ls[1].lesson), Tail(ls))

\* lines 358-394
P2Respond ==
  /\ pc = "p2loop"
  /\ ~(i < Len(chunks))
  /\ zipFiles' = p2WriteLessons(
                   put(put(EmptyFiles, "data/standalone/book/book.json", <<>>),
                       "data/standalone/book/ch1.json", <<>>),
                   lessons)
  /\ status' = StatusOk
  /\ pc' = "done"
  /\ UNCHANGED <<stripVars, history, pathVars, epubVars, reqVars, combinedText, chunkVars, loopVars>>

(***************************************************************************)
(* Uploaded archives.                                                      *)
(***************************************************************************)
attribute(name, q, value) == <<" ">> \o name \o <<"=", q>> \o value \o <<q>>

MediaType == <<"a", "p", "p", "l", "i", "c", "a", "t", "i", "o", "n", "/", "o", "e", "b", "p", "s", "-", "p", "a", "c", "k", "a", "g", "e", "+", "x", "m", "l">>

\* container.xml with one rootfile declaration: full-path alone, before or
\* after media-type, each value in double or single quotes
containerXml(d) ==
  LET fp == attribute(<<"f", "u", "l", "l", "-", "p", "a", "t", "h">>, d.quote, d.fullPath)
      mt == attribute(<<"m", "e", "d", "i", "a", "-", "t", "y", "p", "e">>, d.mtQuote, MediaType)
  IN  <<"<", "c", "o", "n", "t", "a", "i", "n", "e", "r", ">", "<", "r", "o", "o", "t", "f", "i", "l", "e", "s", ">", "<", "r", "o", "o", "t", "f", "i", "l", "e">>
      \o (IF d.order = "only" THEN fp
          ELSE IF d.order = "first" THEN fp \o mt ELSE mt \o fp)
      \o <<"/", ">", "<", "/", "r", "o", "o", "t", "f", "i", "l", "e", "s", ">", "<", "/", "c", "o", "n", "t", "a", "i", "n", "e", "r", ">">>

OpfNames == { <<"O", "E", "B", "P", "S", "/", "c", "o", "n", "t", "e", "n", "t", ".", "o", "p", "f">>, <<"c", "o", "n", "t", "e", "n", "t", ".", "o", "p", "f">>, <<"O", "E", "B", "P", "S", "/", "p", "k", "g", "/", "b", "o", "o", "k", ".", "o", "p", "f">>, <<"m", "y", " ", "b", "o", "o", "k", "/", "c", ".", "o", "p", "f">> }

ContainerPaths == { <<"M", "E", "T", "A", "-", "I", "N", "F", "/", "c", "o", "n", "t", "a", "i", "n", "e", "r", ".", "x", "m", "l">>, <<"m", "e", "t", "a", "-", "i", "n", "f", "/", "C", "o", "n", "t", "a", "i", "n", "e", "r", ".", "X", "M", "L">> }

ContainerDescs ==
  { d \in [fullPath : OpfNames, quote : Quotes, mtQuote : Quotes,
           order : {"only", "first", "last"}, path : ContainerPaths] :
      d.order = "only" => d.mtQuote = "\"" }

containerFile(d) == [path |-> d.path, data |-> containerXml(d)]

\* texts stripHtml returns: one above the length floor, one below
LongText == [k \in 1..(MinTextLength + 3) |-> IF k % 20 = 0 THEN " " ELSE "a"]
ShortText == <<"b", " ", "b", " ", "a">>

Ch1 == [path |-> <<"O", "E", "B", "P", "S", "/", "t", "e", "x", "t", "/", "c", "h", "1", ".", "x", "h", "t", "m", "l">>, data |-> LongText]
Ch2 == [path |-> <<"O", "E", "B", "P", "S", "/", "c", "h", "2", ".", "h", "t", "m", "l">>, data |-> ShortText]
Blank == [path |-> <<"O", "E", "B", "P", "S", "/", "b", "l", "a", "n", "k", ".", "h", "t", "m", "l">>, data |-> <<" ", "\n">>]
Cover == [path |-> <<"O", "E", "B", "P", "S", "/", "c", "o", "v", "e", "r", ".", "p", "n", "g">>, data |-> <<>>]
Appendix == [path |-> <<"A", "p", "p", "e", "n", "d", "i", "x", ".", "H", "T", "M">>, data |-> LongText]

\* package documents: a spine over the manifest; a manifest alone; a spine
\* whose documents are not in the archive
OpfSpine == <<"<", "p", "a", "c", "k", "a", "g", "e", ">", "<", "m", "a", "n", "i", "f", "e", "s", "t", ">", "<", "i", "t", "e", "m", " ", "i", "d", "=", "\"", "c", "1", "\"", " ", "h", "r", "e", "f", "=", "\"", "t", "e", "x", "t", "/", "c", "h", "1", ".", "x", "h", "t", "m", "l", "\"", " ", "m", "e", "d", "i", "a", "-", "t", "y", "p", "e", "=", "\"", "a", "p", "p", "l", "i", "c", "a", "t", "i", "o", "n", "/", "x", "h", "t", "m", "l", "+", "x", "m", "l", "\"", "/", ">", "<", "i", "t", "e", "m", " ", "h", "r", "e", "f", "=", "'", ".", "/", "t", "e", "x", "t", "/", ".", ".", "/", "c", "h", "2", ".", "h", "t", "m", "l", "#", "t", "o", "p", "'", " ", "i", "d", "=", "'", "c", "2", "'", "/", ">", "<", "i", "t", "e", "m", " ", "i", "d", "=", "\"", "c", "s", "s", "\"", " ", "h", "r", "e", "f", "=", "\"", "s", "t", "y", "l", "e", ".", "c", "s", "s", "\"", "/", ">", "<", "i", "t", "e", "m", " ", "i", "d", "=", "\"", "g", "o", "n", "e", "\"", " ", "h", "r", "e", "f", "=", "\"", "t", "e", "x", "t", "/", "g", "o", "n", "e", ".", "x", "h", "t", "m", "l", "\"", "/", ">", "<", "/", "m", "a", "n", "i", "f", "e", "s", "t", ">", "<", "s", "p", "i", "n", "e", ">", "<", "i", "t", "e", "m", "r", "e", "f", " ", "i", "d", "r", "e", "f", "=", "\"", "c", "1", "\"", "/", ">", "<", "i", "t", "e", "m", "r", "e", "f", " ", "i", "d", "r", "e", "f", "=", "\"", "c", "s", "s", "\"", "/", ">", "<", "i", "t", "e", "m", "r", "e", "f", " ", "i", "d", "r", "e", "f", "=", "\"", "n", "o", "p", "e", "\"", "/", ">", "<", "i", "t", "e", "m", "r", "e", "f", " ", "i", "d", "r", "e", "f", "=", "\"", "g", "o", "n", "e", "\"", "/", ">", "<", "i", "t", "e", "m", "r", "e", "f", " ", "l", "i", "n", "e", "a", "r", "=", "\"", "n", "o", "\"", " ", "i", "d", "r", "e", "f", "=", "\"", "c", "2", "\"", "/", ">", "<", "/", "s", "p", "i", "n", "e", ">", "<", "/", "p", "a", "c", "k", "a", "g", "e", ">">>
OpfNoSpine == <<"<", "p", "a", "c", "k", "a", "g", "e", ">", "<", "m", "a", "n", "i", "f", "e", "s", "t", ">", "<", "i", "t", "e", "m", " ", "i", "d", "=", "\"", "c", "1", "\"", " ", "h", "r", "e", "f", "=", "\"", "t", "e", "x", "t", "/", "c", "h", "1", ".", "x", "h", "t", "m", "l", "\"", "/", ">", "<", "/", "m", "a", "n", "i", "f", "e", "s", "t", ">", "<", "s", "p", "i", "n", "e", ">", "<", "/", "s", "p", "i", "n", "e", ">", "<", "/", "p", "a", "c", "k", "a", "g", "e", ">">>
OpfInherited == <<"<", "p", "a", "c", "k", "a", "g", "e", ">", "<", "m", "a", "n", "i", "f", "e", "s", "t", ">", "<", "i", "t", "e", "m", " ", "i", "d", "=", "\"", "c", "1", "\"", " ", "h", "r", "e", "f", "=", "\"", "t", "e", "x", "t", "/", "c", "h", "1", ".", "x", "h", "t", "m", "l", "\"", "/", ">", "<", "/", "m", "a", "n", "i", "f", "e", "s", "t", ">", "<", "s", "p", "i", "n", "e", ">", "<", "i", "t", "e", "m", "r", "e", "f", " ", "i", "d", "r", "e", "f", "=", "\"", "c", "1", "\"", "/", ">", "<", "i", "t", "e", "m", "r", "e", "f", " ", "i", "d", "r", "e", "f", "=", "\"", "c", "o", "n", "s", "t", "r", "u", "c", "t", "o", "r", "\"", "/", ">", "<", "/", "s", "p", "i", "n", "e", ">", "<", "/", "p", "a", "c", "k", "a", "g", "e", ">">>
OpfDangling == <<"<", "p", "a", "c", "k", "a", "g", "e", ">", "<", "m", "a", "n", "i", "f", "e", "s", "t", ">", "<", "i", "t", "e", "m", " ", "i", "d", "=", "\"", "g", "o", "n", "e", "\"", " ", "h", "r", "e", "f", "=", "\"", "t", "e", "x", "t", "/", "g", "o", "n", "e", ".", "x", "h", "t", "m", "l", "\"", "/", ">", "<", "/", "m", "a", "n", "i", "f", "e", "s", "t", ">", "<", "s", "p", "i", "n", "e", ">", "<", "i", "t", "e", "m", "r", "e", "f", " ", "i", "d", "r", "e", "f", "=", "\"", "g", "o", "n", "e", "\"", "/", ">", "<", "/", "s", "p", "i", "n", "e", ">", "<", "/", "p", "a", "c", "k", "a", "g", "e", ">">>

ContainerChoices ==
  { <<>>,
    <<containerFile([fullPath |-> <<"O", "E", "B", "P", "S", "/", "c", "o", "n", "t", "e", "n", "t", ".", "o", "p", "f">>, quote |-> "\"", mtQuote |-> "\"",
                     order |-> "first", path |-> <<"M", "E", "T", "A", "-", "I", "N", "F", "/", "c", "o", "n", "t", "a", "i", "n", "e", "r", ".", "x", "m", "l">>])>>,
    <<containerFile([fullPath |-> <<"c", "o", "n", "t", "e", "n", "t", ".", "o", "p", "f">>, quote |-> "\"", mtQuote |-> "'",
                     order |-> "last", path |-> <<"m", "e", "t", "a", "-", "i", "n", "f", "/", "C", "o", "n", "t", "a", "i", "n", "e", "r", ".", "X", "M", "L">>])>>,
    <<[path |-> <<"M", "E", "T", "A", "-", "I", "N", "F", "/", "c", "o", "n", "t", "a", "i", "n", "e", "r", ".", "x", "m", "l">>, data |-> <<"<", "c", "o", "n", "t", "a", "i", "n", "e", "r", ">", "<", "r", "o", "o", "t", "f", "i", "l", "e", "s", ">", "<", "r", "o", "o", "t", "f", "i", "l", "e", " ", "m", "e", "d", "i", "a", "-", "t", "y", "p", "e", "=", "\"", "a", "p", "p", "l", "i", "c", "a", "t", "i", "o", "n", "/", "o", "e", "b", "p", "s", "-", "p", "a", "c", "k", "a", "g", "e", "+", "x", "m", "l", "\"", "/", ">", "<", "/", "r", "o", "o", "t", "f", "i", "l", "e", "s", ">", "<", "/", "c", "o", "n", "t", "a", "i", "n", "e", "r", ">">>]>> }

OpfChoices ==
  { <<>>,
    <<[path |-> <<"O", "E", "B", "P", "S", "/", "c", "o", "n", "t", "e", "n", "t", ".", "o", "p", "f">>, data |-> OpfSpine]>>,
    <<[path |-> <<"O", "E", "B", "P", "S", "/", "c", "o", "n", "t", "e", "n", "t", ".", "o", "p", "f">>, data |-> OpfNoSpine]>>,
    <<[path |-> <<"O", "E", "B", "P", "S", "/", "c", "o", "n", "t", "e", "n", "t", ".", "o", "p", "f">>, data |-> OpfInherited]>>,
    <<[path |-> <<"O", "E", "B", "P", "S", "/", "c", "o", "n", "t", "e", "n", "t", ".", "o", "p", "f">>, data |-> OpfDangling]>> }

DocChoices ==
  { <<>>, <<Cover>>, <<Blank>>, <<Ch1>>, <<Ch2>>, <<Ch2, Ch1>>, <<Appendix, Cover, Ch1, Ch2>> }

Archives == {c \o o \o d : c \in ContainerChoices, o \in OpfChoices, d \in DocChoices}

P2Form(kind) ==
  [file |-> kind, docs |-> <<>>, targetWords |-> <<>>, maxFragments |-> <<>>,
   startFrom |-> <<>>]

InitEpub ==
  /\ pc = "p2request"
  /\ \/ /\ form = P2Form("epub")
        /\ files \in Archives
     \/ /\ form \in {P2Form("notMultipart"), P2Form("none"), P2Form("notEpub"),
                     P2Form("corrupt")}
        /\ files = <<>>
  /\ opfPath = <<>>
  /\ htmlPaths = <<>>
  /\ combinedText = <<>>
  /\ targetWords = 0
  /\ maxFragments = 0
  /\ startFrom = 0
  /\ BlankChunk
  /\ BlankStrip
  /\ BlankLoop
  /\ BlankPath

NextEpub ==
  \/ P2Reject
  \/ P2Corrupt
  \/ P2Unzip
  \/ FindOpfOk
  \/ FindOpfThrows
  \/ ExtractSpine
  \/ NoSpineHtml
  \/ SpineThrows
  \/ OpfDecodeThrows
  \/ TooShort
  \/ Combine
  \/ ChunkSplit
  \/ ChunkLoop
  \/ ChunkReturn
  \/ P2Window
  \/ P2GenStart
  \/ P2GenReturn
  \/ P2GenThrow
  \/ P2Respond

SpecEpub == InitEpub /\ [][NextEpub]_vars

(***************************************************************************)
(* extractSpineHtmlPaths alone, over package documents.                    *)
(***************************************************************************)
\* the manifest of the package documents: ids and hrefs
ManifestItems ==
  << [id |-> <<"c", "1">>, href |-> <<"t", "e", "x", "t", "/", "c", "h", "1", ".", "x", "h", "t", "m", "l">>], [id |-> <<"c", "2">>, href |-> <<".", "/", "t", "e", "x", "t", "/", ".", ".", "/", "c", "h", "2", ".", "h", "t", "m", "l", "#", "t", "o", "p">>],
     [id |-> <<"a", "p">>, href |-> <<".", ".", "/", "A", "p", "p", "e", "n", "d", "i", "x", ".", "H", "T", "M">>], [id |-> <<"c", "s", "s">>, href |-> <<"s", "t", "y", "l", "e", ".", "c", "s", "s">>],
     [id |-> <<"g", "o", "n", "e">>, href |-> <<"t", "e", "x", "t", "/", "g", "o", "n", "e", ".", "x", "h", "t", "m", "l">>] >>

\* idrefs of a spine: the manifest's ids, an id the manifest does not
\* declare, and an undeclared id that is a property name of Object.prototype
SpineIds ==
  {ManifestItems[k].id : k \in 1..Len(ManifestItems)} \cup {<<"n", "o", "p", "e">>, <<"c", "o", "n", "s", "t", "r", "u", "c", "t", "o", "r">>}

RECURSIVE concat(_)
concat(ss) == IF ss = <<>> THEN <<>> ELSE ss[1] \o concat(Tail(ss))

itemTag(it) ==
  <<"<", "i", "t", "e", "m">> \o attribute(<<"i", "d">>, "\"", it.id)
  \o attribute(<<"h", "r", "e", "f">>, "\"", it.href) \o <<"/", ">">>

itemrefTag(idref) ==
  <<"<", "i", "t", "e", "m", "r", "e", "f">> \o attribute(<<"i", "d", "r", "e", "f">>, "\"", idref) \o <<"/", ">">>

packageXml(spine) ==
  <<"<", "p", "a", "c", "k", "a", "g", "e", ">", "<", "m", "a", "n", "i", "f", "e", "s", "t", ">">> \o concat([k \in 1..Len(ManifestItems) |-> itemTag(ManifestItems[k])])
  \o <<"<", "/", "m", "a", "n", "i", "f", "e", "s", "t", ">", "<", "s", "p", "i", "n", "e", ">">> \o concat([k \in 1..Len(spine) |-> itemrefTag(spine[k])])
  \o <<"<", "/", "s", "p", "i", "n", "e", ">", "<", "/", "p", "a", "c", "k", "a", "g", "e", ">">>

InitSpine ==
  /\ pc = "extractSpine"
  /\ \E spine \in SeqsUpTo(SpineIds, MaxSpine) :
       /\ form = [file |-> "epub", spine |-> spine]
       /\ files = <<[path |-> <<"O", "E", "B", "P", "S", "/", "c", "o", "n", "t", "e", "n", "t", ".", "o", "p", "f">>, data |-> packageXml(spine)], Ch2, Cover,
                    Appendix, Ch1>>
  /\ opfPath = <<"O", "E", "B", "P", "S", "/", "c", "o", "n", "t", "e", "n", "t", ".", "o", "p", "f">>
  /\ htmlPaths = <<>>
  /\ combinedText = <<>>
  /\ targetWords = 0
  /\ maxFragments = 0
  /\ startFrom = 0
  /\ BlankChunk
  /\ BlankStrip
  /\ BlankLoop
  /\ BlankPath

NextSpine ==
  \/ ExtractSpine
  \/ SpineThrows

SpecSpine == InitSpine /\ [][NextSpine]_vars

(***************************************************************************)
(* The fallback of extractSpineHtmlPaths, over archives.                   *)
(***************************************************************************)
Lower == [path |-> <<"b", ".", "h", "t", "m", "l">>, data |-> LongText]

\* the entries of an archive besides the package document, in any order
EntryLists ==
  { es \in SeqsUpTo({Ch1, Ch2, Cover, Appendix, Lower}, MaxEntries) :
      \A j, k \in 1..Len(es) : j # k => es[j] # es[k] }

\* spines with no usable entry, and one with a usable entry
FallbackSpines == { <<>>, <<<<"c", "s", "s">>>>, <<<<"n", "o", "p", "e">>, <<"g", "o", "n", "e">>>>, <<<<"c", "1">>>> }

InitFallback ==
  /\ pc = "extractSpine"
  /\ \E spine \in FallbackSpines, es \in EntryLists :
       /\ form = [file |-> "epub", spine |-> spine]
       /\ files = <<[path |-> <<"O", "E", "B", "P", "S", "/", "c", "o", "n", "t", "e", "n", "t", ".", "o", "p", "f">>, data |-> packageXml(spine)]>> \o es
  /\ opfPath = <<"O", "E", "B", "P", "S", "/", "c", "o", "n", "t", "e", "n", "t", ".", "o", "p", "f">>
  /\ htmlPaths = <<>>
  /\ combinedText = <<>>
  /\ targetWords = 0
  /\ maxFragments = 0
  /\ startFrom = 0
  /\ BlankChunk
  /\ BlankStrip
  /\ BlankLoop
  /\ BlankPath

NextFallback ==
  \/ ExtractSpine
  \/ NoSpineHtml

SpecFallback == InitFallback /\ [][NextFallback]_vars

(***************************************************************************)
(* The manifest of extractSpineHtmlPaths, over item declarations.          *)
(***************************************************************************)
\* attributes an item declaration carries besides id and href
ExtraAttributes ==
  { [name |-> <<"m", "e", "d", "i", "a", "-", "t", "y", "p", "e">>, value |-> <<"a", "p", "p", "l", "i", "c", "a", "t", "i", "o", "n", "/", "x", "h", "t", "m", "l", "+", "x", "m", "l">>], [name |-> <<"p", "r", "o", "p", "e", "r", "t", "i", "e", "s">>, value |-> <<"n", "a", "v">>],
    [name |-> <<"x", "m", "l", ":", "i", "d">>, value |-> <<"k">>], [name |-> <<"d", "a", "t", "a", "-", "h", "r", "e", "f">>, value |-> <<"z", ".", "h", "t", "m", "l">>] }

ItemDescs ==
  [id : {<<"c", "1">>, <<"x">>}, href : {<<"t", "e", "x", "t", "/", "c", "h", "1", ".", "x", "h", "t", "m", "l">>, <<"c", "h", "2", ".", "h", "t", "m", "l">>}, quote : Quotes,
   order : {"id", "href"}, extra : {<<>>} \cup {<<e>> : e \in ExtraAttributes},
   extraAt : {"first", "last"}]

\* a manifest item declaration with the attributes in the order described
itemDecl(d) ==
  LET id == attribute(<<"i", "d">>, d.quote, d.id)
      hr == attribute(<<"h", "r", "e", "f">>, d.quote, d.href)
      ex == IF d.extra = <<>> THEN <<>>
            ELSE attribute(d.extra[1].name, d.quote, d.extra[1].value)
      own == IF d.order = "id" THEN id \o hr ELSE hr \o id
  IN  <<"<", "i", "t", "e", "m">> \o (IF d.extraAt = "first" THEN ex \o own ELSE own \o ex)
      \o <<"/", ">">>

itemXml(d) ==
  <<"<", "p", "a", "c", "k", "a", "g", "e", ">", "<", "m", "a", "n", "i", "f", "e", "s", "t", ">">> \o itemDecl(d) \o <<"<", "/", "m", "a", "n", "i", "f", "e", "s", "t", ">", "<", "s", "p", "i", "n", "e", ">">> \o itemrefTag(d.id) \o <<"<", "/", "s", "p", "i", "n", "e", ">", "<", "/", "p", "a", "c", "k", "a", "g", "e", ">">>

InitManifest ==
  /\ pc = "extractSpine"
  /\ \E d \in ItemDescs, docs \in {<<>>, <<Ch1, Ch2>>} :
       /\ d.extra = <<>> => d.extraAt = "last"
       /\ form = [file |-> "epub", item |-> d]
       /\ files = <<[path |-> <<"O", "E", "B", "P", "S", "/", "c", "o", "n", "t", "e", "n", "t", ".", "o", "p", "f">>, data |-> itemXml(d)]>> \o docs
  /\ opfPath = <<"O", "E", "B", "P", "S", "/", "c", "o", "n", "t", "e", "n", "t", ".", "o", "p", "f">>
  /\ htmlPaths = <<>>
  /\ combinedText = <<>>
  /\ targetWords = 0
  /\ maxFragments = 0
  /\ startFrom = 0
  /\ BlankChunk
  /\ BlankStrip
  /\ BlankLoop
  /\ BlankPath

NextManifest ==
  \/ ExtractSpine
  \/ NoSpineHtml

SpecManifest == InitManifest /\ [][NextManifest]_vars

(***************************************************************************)
(* findOpfPath alone, over container.xml documents.                        *)
(***************************************************************************)
InitContainer ==
  /\ pc = "findOpfPath"
  /\ \E d \in ContainerDescs :
       /\ form = [file |-> "epub", container |-> d]
       /\ files = <<containerFile(d)>>
  /\ opfPath = <<>>
  /\ htmlPaths = <<>>
  /\ combinedText = <<>>
  /\ targetWords = 0
  /\ maxFragments = 0
  /\ startFrom = 0
  /\ BlankChunk
  /\ BlankStrip
  /\ BlankLoop
  /\ BlankPath

NextContainer ==
  \/ FindOpfOk
  \/ FindOpfThrows

SpecContainer == InitContainer /\ [][NextContainer]_vars

(***************************************************************************)
(* stripHtml (src/unnamed/part_002 18-36, src/src/index.ts 19-28).         *)
(***************************************************************************)
\* the literal lit stands in s at position p
matchesAt(s, p, lit) ==
  /\ p + Len(lit) - 1 <= Len(s)
  /\ SubSeq(s, p, p + Len(lit) - 1) = lit

\* first position >= p of s not holding a character of C, Len(s)+1 if none
skipIn(s, C, p) ==
  IF \E k \in p..Len(s) : s[k] \notin C
  THEN CHOOSE k \in p..Len(s) : s[k] \notin C /\ \A m \in p..(k - 1) : s[m] \in C
  ELSE Len(s) + 1

\* first position >= p of s where lit stands, ignoring case; 0 if none
findCI(s, lit, p) ==
  IF \E k \in p..Len(s) : matchesAtCI(s, k, lit)
  THEN CHOOSE k \in p..Len(s) :
         matchesAtCI(s, k, lit) /\ \A m \in p..(k - 1) : ~matchesAtCI(s, m, lit)
  ELSE 0

\* /<name[\s\S]*?<\/name>/i: length of the match at p, 0 for no match
blockLen(s, p, open, close) ==
  IF matchesAtCI(s, p, open) /\ findCI(s, close, p + Len(open)) # 0
  THEN findCI(s, close, p + Len(open)) + Len(close) - p
  ELSE 0

ClosingNames == { <<"p">>, <<"d", "i", "v">>, <<"b", "r">>, <<"l", "i">>, <<"h", "1">>, <<"h", "2">>, <<"h", "3">>, <<"h", "4">>, <<"h", "5">>, <<"h", "6">> }

\* /<\/(p|div|br|li|h1|h2|h3|h4|h5|h6)>/i
closingLen(s, p) ==
  IF \E n \in ClosingNames : matchesAtCI(s, p, <<"<", "/">> \o n \o <<">">>)
  THEN 3 + Len(CHOOSE n \in ClosingNames : matchesAtCI(s, p, <<"<", "/">> \o n \o <<">">>))
  ELSE 0

\* /<br\s*\/?>/i
brLen(s, p) ==
  IF ~matchesAtCI(s, p, <<"<", "b", "r">>) THEN 0
  ELSE LET q == skipWs(s, p + 3)
       IN  IF matchesAt(s, q, <<"/", ">">>) THEN q + 2 - p
           ELSE IF matchesAt(s, q, <<">">>) THEN q + 1 - p
           ELSE 0

\* /<[^>]+>/
tagLen(s, p) ==
  IF /\ s[p] = "<"
     /\ p + 1 <= Len(s)
     /\ s[p + 1] # ">"
     /\ firstIn(s, {">"}, p + 1) # 0
  THEN firstIn(s, {">"}, p + 1) - p + 1
  ELSE 0

\* /\s+\n/: a whitespace run read up to its last line feed
wsNlLen(s, p) ==
  LET e == skipWs(s, p) - 1
  IN  IF s[p] \in WS /\ \E r \in (p + 1)..e : s[r] = "\n"
      THEN (CHOOSE r \in (p + 1)..e :
              s[r] = "\n" /\ \A m \in (r + 1)..e : s[m] # "\n") - p + 1
      ELSE 0

\* /\n\s+/
nlWsLen(s, p) ==
  IF s[p] = "\n" /\ p + 1 <= Len(s) /\ s[p + 1] \in WS
  THEN skipWs(s, p + 1) - p
  ELSE 0

\* /\n{3,}/
nl3Len(s, p) ==
  IF skipIn(s, {"\n"}, p) - p >= 3 THEN skipIn(s, {"\n"}, p) - p ELSE 0

\* length of the match of a rule at position p of s, 0 for no match
matchLen(rule, s, p) ==
  CASE rule = "script" -> blockLen(s, p, <<"<", "s", "c", "r", "i", "p", "t">>, <<"<", "/", "s", "c", "r", "i", "p", "t", ">">>)
    [] rule = "style"  -> blockLen(s, p, <<"<", "s", "t", "y", "l", "e">>, <<"<", "/", "s", "t", "y", "l", "e", ">">>)
    [] rule = "close"  -> closingLen(s, p)
    [] rule = "br"     -> brLen(s, p)
    [] rule = "tag"    -> tagLen(s, p)
    [] rule = "wsNl"   -> wsNlLen(s, p)
    [] rule = "nlWs"   -> nlWsLen(s, p)
    [] rule = "blanks" -> skipIn(s, {" ", "\t"}, p) - p
    [] rule = "nl3"    -> nl3Len(s, p)
    [] rule = "ws"     -> skipWs(s, p) - p
    [] OTHER           -> IF matchesAt(s, p, rule) THEN Len(rule) ELSE 0

\* String.prototype.replace(/rule/g, repl)
RECURSIVE replaceFrom(_, _, _, _, _)
replaceFrom(rule, repl, s, p, acc) ==
  IF p > Len(s) THEN acc
  ELSE IF matchLen(rule, s, p) = 0
       THEN replaceFrom(rule, repl, s, p + 1, Append(acc, s[p]))
       ELSE replaceFrom(rule, repl, s, p + matchLen(rule, s, p), acc \o repl)

replaceAll(s, rule, repl) == replaceFrom(rule, repl, s, 1, <<>>)

\* lines 20-24 of both revisions
stripTags(h) ==
  replaceAll(replaceAll(replaceAll(replaceAll(replaceAll(h,
    "script", <<" ">>), "style", <<" ">>), "close", <<"\n">>), "br", <<"\n">>),
    "tag", <<" ">>)

\* part_002 lines 25-30
decodeEntities(t) ==
  replaceAll(replaceAll(replaceAll(replaceAll(replaceAll(replaceAll(t,
    <<"&", "n", "b", "s", "p", ";">>, <<" ">>), <<"&", "a", "m", "p", ";">>, <<"&">>), <<"&", "l", "t", ";">>, <<"<">>), <<"&", "g", "t", ";">>, <<">">>),
    <<"&", "q", "u", "o", "t", ";">>, <<"\"">>), <<"&", "#", "3", "9", ";">>, <<"'">>)

\* part_002 lines 31-34
collapse(t) ==
  replaceAll(replaceAll(replaceAll(replaceAll(t,
    "wsNl", <<"\n">>), "nlWs", <<"\n">>), "blanks", <<" ">>), "nl3", <<"\n", "\n">>)

\* part_002 lines 18-36
stripHtml(h) == trim(collapse(decodeEntities(stripTags(h))))

\* index.ts lines 19-28
stripHtmlIndex(h) == trim(replaceAll(stripTags(h), "ws", <<" ">>))

\* pieces of markup and text the documents are made of
Pieces ==
  { <<"a">>, <<" ">>, <<"\n">>, <<"<">>, <<">">>, <<"<", "b", ">">>, <<"<", "/", "p", ">">>, <<"<", "b", "r", " ", "/", ">">>, <<"<", "s", "c", "r", "i", "p", "t">>,
    <<"<", "/", "s", "c", "r", "i", "p", "t", ">">>, <<"&", "l", "t", ";">>, <<"&", "g", "t", ";">>, <<"&", "a", "m", "p", ";">>, <<"l", "t", ";">> }

Documents == {concat(ps) : ps \in SeqsUpTo(Pieces, MaxPieces)}

InitStrip ==
  /\ pc = "stripHtml"
  /\ html \in Documents
  /\ stripped = <<>>
  /\ history = <<>>
  /\ form = NoForm
  /\ combinedText = <<>>
  /\ targetWords = 0
  /\ maxFragments = 0
  /\ startFrom = 0
  /\ words = <<>>
  /\ ci = 0
  /\ allChunks = <<>>
  /\ BlankLoop
  /\ BlankPath
  /\ BlankEpub

\* part_002: stripHtml(html)
StripHtml ==
  /\ pc = "stripHtml"
  /\ stripped' = stripHtml(html)
  /\ pc' = "stripped"
  /\ UNCHANGED <<html, history, pathVars, epubVars, reqVars, combinedText,
                 chunkVars, loopVars, zipFiles, status>>

\* index.ts: stripHtml(html)
StripHtmlIndex ==
  /\ pc = "stripHtml"
  /\ stripped' = stripHtmlIndex(html)
  /\ pc' = "strippedIndex"
  /\ UNCHANGED <<html, history, pathVars, epubVars, reqVars, combinedText,
                 chunkVars, loopVars, zipFiles, status>>

NextStrip ==
  \/ StripHtml
  \/ StripHtmlIndex

SpecStrip == InitStrip /\ [][NextStrip]_vars

(***************************************************************************)
(* Properties of the orchestrator and the archive writer.                  *)
(***************************************************************************)
\* the orchestrator loop has been entered (Running, Complete, PartialFailure)
Started ==
  \/ pc \in {"loop", "fetch", "text", "json", "write"}
  \/ pc = "done" /\ status \in {StatusOk, StatusPartial}

Failed == \E k \in 1..Len(calls) : calls[k].outcome = "fail"

FirstFailed ==
  calls[CHOOSE k \in 1..Len(calls) :
          /\ calls[k].outcome = "fail"
          /\ \A m \in 1..(k - 1) : calls[m].outcome # "fail"].index

\* C1: at every point of the orchestrator run the accumulated results are
\* those of fragments startFrom, startFrom+1, ..., startFrom+k-1 in order (a
\* gapless prefix of the operative fragments); once a generator call has
\* failed on fragment j, no fragment above j has been attempted, no call
\* follows the failed one, and the results of all fragments below j are kept.
C1_GaplessPrefix ==
  Started =>
    /\ Len(lessons) <= Len(chunks)
    /\ \A k \in 1..Len(lessons) :
         /\ lessons[k].index = startFrom + k - 1
         /\ lessons[k].lesson = chunks[k]
    /\ Failed =>
         /\ \A k \in 1..Len(calls) : calls[k].index <= FirstFailed
         /\ calls[Len(calls)].outcome = "fail"
         /\ calls[Len(calls)].index = FirstFailed
         /\ {lessons[k].index : k \in 1..Len(lessons)}
              = startFrom..(FirstFailed - 1)
         /\ pc \in {"write", "done"}

C1_Witness ==
  /\ pc = "done"
  /\ Failed
  /\ startFrom = 2
  /\ Len(lessons) = 2
  /\ FirstFailed = 4

\* C2: in the terminal state the archive holds exactly one entry per
\* accumulated result, named lesson_<index>.json from the index alone (no two
\* results sharing a name), plus exactly one error entry iff a generator call
\* failed; the error entry names the first failing fragment, and the status
\* is 206 iff the error entry is present and 200 otherwise.
C2_ArchiveLayout ==
  (pc = "done" /\ status \in {StatusOk, StatusPartial}) =>
    LET names == {"lesson_" \o ToString(lessons[k].index) \o ".json" :
                    k \in 1..Len(lessons)}
    IN  /\ DOMAIN zipFiles = names \cup (IF Failed THEN {"import_error.json"} ELSE {})
        /\ Cardinality(DOMAIN zipFiles) = Len(lessons) + (IF Failed THEN 1 ELSE 0)
        /\ \A k \in 1..Len(lessons) :
             zipFiles["lesson_" \o ToString(lessons[k].index) \o ".json"]
               = lessons[k].lesson
        /\ Failed => zipFiles["import_error.json"].fragment = FirstFailed
        /\ (status = StatusPartial) <=> ("import_error.json" \in DOMAIN zipFiles)
        /\ (status = StatusOk) <=> ("import_error.json" \notin DOMAIN zipFiles)

C2_Witness ==
  /\ pc = "done"
  /\ startFrom = 1
  /\ Len(allChunks) = 3
  /\ DOMAIN zipFiles = {"lesson_1.json", "import_error.json"}
  /\ zipFiles["import_error.json"].fragment = 2
  /\ status = StatusPartial

\* C3: the generator is invoked strictly sequentially in increasing fragment
\* order: every call but the last has returned successfully before the next
\* one started, the k-th call is for fragment startFrom+k-1 with that
\* fragment's text (so no fragment is passed twice), and there are never
\* more than maxFragments calls.
C3_SequentialCalls ==
  Started =>
    /\ \A k \in 1..Len(calls) :
         /\ calls[k].index = startFrom + k - 1
         /\ calls[k].index \in 1..Len(allChunks)
         /\ calls[k].text = allChunks[calls[k].index]
         /\ k < Len(calls) => calls[k].outcome = "ok"
    /\ \A k, m \in 1..Len(calls) : calls[k].index = calls[m].index => k = m
    /\ Len(calls) <= maxFragments
    /\ InFlight <=> (calls # <<>> /\ calls[Len(calls)].outcome = "pending")

C3_Witness ==
  /\ pc = "json"
  /\ Len(calls) = 3
  /\ maxFragments = 3
  /\ calls[3].index = 4

\* C5: for startFrom >= 1 and maxFragments >= 1 the operative sequence is
\* allFragments[startFrom-1 .. min(startFrom-1+maxFragments, length)) and its
\* i-th fragment (0-based) is handed to the generator with index startFrom+i;
\* startFrom=2, maxFragments=2 gives fragments 2 and 3 of 5, and over a
\* single fragment an empty operative set, status 200 and no generator call.
C5_Window ==
  Started =>
    LET hi == Min(startFrom - 1 + maxFragments, Len(allChunks))
        expected == [k \in 1..Max(hi - (startFrom - 1), 0)
                       |-> allChunks[startFrom - 1 + k]]
    IN  /\ startFrom >= 1 /\ maxFragments >= 1
        /\ chunks = expected
        /\ \A k \in 1..Len(calls) :
             /\ calls[k].index = startFrom + (k - 1)
             /\ calls[k].text = expected[k]
        /\ (startFrom = 2 /\ maxFragments = 2 /\ Len(allChunks) = 5)
             => chunks = <<allChunks[2], allChunks[3]>>
        /\ (startFrom = 2 /\ maxFragments = 2 /\ Len(allChunks) = 1)
             => /\ chunks = <<>>
                /\ calls = <<>>
                /\ pc = "done" => (status = StatusOk /\ zipFiles = EmptyFiles)

C5_Witness ==
  /\ pc = "done"
  /\ startFrom = 2
  /\ maxFragments = 2
  /\ Len(allChunks) = 5
  /\ Len(calls) = 2
  /\ calls[1].index = 2
  /\ calls[2].index = 3
  /\ status = StatusOk

\* C4: every generator call is bounded by the fixed timeout: a call whose
\* complete result (status and body) has not arrived when the timeout has
\* elapsed is cancelled and counted as that fragment's failure, so no call is
\* still in flight after more than TimeoutMs.
C4_CallBoundedByTimeout == InFlight => clock <= TimeoutMs

(***************************************************************************)
(* Properties of chunkWords.                                               *)
(***************************************************************************)
\* the whitespace-delimited words of a text: its maximal runs of
\* non-whitespace characters, from left to right
WordStarts(t) == {k \in 1..Len(t) : t[k] \notin WS /\ (k = 1 \/ t[k - 1] \in WS)}

WordEnd(t, k) ==
  CHOOSE e \in k..Len(t) :
    /\ \A m \in k..e : t[m] \notin WS
    /\ e = Len(t) \/ t[e + 1] \in WS

WordsOf(t) ==
  LET S == WordStarts(t)
      nth(n) == CHOOSE k \in S : Cardinality({m \in S : m < k}) = n - 1
  IN  [n \in 1..Cardinality(S) |-> SubSeq(t, nth(n), WordEnd(t, nth(n)))]

RECURSIVE Flatten(_)
Flatten(ss) == IF ss = <<>> THEN <<>> ELSE ss[1] \o Flatten(Tail(ss))

\* C6: for targetWords >= 1 the fragments returned by chunkWords partition
\* the word sequence of the text: their words, concatenated in order, are
\* exactly the text's words; every fragment but the last has targetWords
\* words, the last has 1..targetWords; the result is empty iff the text has
\* no words; n words give ceil(n/targetWords) fragments (targetWords words
\* give 1, 2*targetWords+1 give 3 of sizes targetWords, targetWords, 1).
C6_Partition ==
  (pc = "chunked" /\ targetWords >= 1) =>
    LET W == WordsOf(combinedText)
        n == Len(W)
        m == Len(allChunks)
        fw == [k \in 1..m |-> WordsOf(allChunks[k])]
    IN  /\ Flatten(fw) = W
        /\ \A k \in 1..(m - 1) : Len(fw[k]) = targetWords
        /\ m >= 1 => Len(fw[m]) \in 1..targetWords
        /\ (m = 0) <=> (n = 0)
        /\ m = (n + targetWords - 1) \div targetWords
        /\ n = targetWords => m = 1
        /\ n = 2 * targetWords + 1
             => (m = 3 /\ Len(fw[1]) = targetWords
                 /\ Len(fw[2]) = targetWords /\ Len(fw[3]) = 1)

C6_Witness ==
  /\ pc = "chunked"
  /\ targetWords = 2
  /\ Len(WordsOf(combinedText)) = 5
  /\ Len(allChunks) = 3
  /\ allChunks[1] = <<"a", " ", "b", "b">>
  /\ allChunks[3] = <<"a">>

\* C7: chunkWords terminates for every text and every targetWords the entry
\* point can hand to it, zero and negative integers included: the loop
\* consumes at least one word per iteration, so it never runs more
\* iterations (pushes more fragments) than the text has words.
C7_ChunkWordsTerminates ==
  pc \in {"chunkLoop", "chunked"} => Len(allChunks) <= Len(words)

(***************************************************************************)
(* Properties of normalizePath.                                            *)
(***************************************************************************)
Segments(p) == splitChar(p, "/")

CleanPath(p) ==
  /\ \A k \in 1..Len(p) : p[k] # "#"
  /\ p # <<>> =>
       \A k \in 1..Len(Segments(p)) :
         Segments(p)[k] \notin {<<>>, <<".">>, <<".", ".">>}

HasHash(p) == \E k \in 1..Len(p) : p[k] = "#"

\* C8 as claimed: for every baseDir and href the normalized path is left
\* unchanged by a second normalization against the empty base, and it has no
\* empty, "." or ".." segment and no fragment identifier.
C8_IdempotentEveryBase ==
  /\ pc \in {"normalized", "renormalized"} => CleanPath(npath)
  /\ pc = "renormalized" => npath2 = npath

\* The same for every baseDir that contains no "#" (only the href is stripped
\* of its fragment identifier); a ".." with nothing left to pop is a no-op;
\* normalize("a/b/", "../c.html") = "a/c.html".
IdempotentCleanBase ==
  /\ (pc \in {"normalized", "renormalized"} /\ ~HasHash(baseDir)) =>
       /\ CleanPath(npath)
       /\ baseDir = <<>> =>
            normalizePath(<<>>, <<".", ".", "/">> \o href) = npath
       /\ (baseDir = <<"a", "/", "b", "/">> /\ href = <<".", ".", "/", "c", ".", "h", "t", "m", "l">>) => npath = <<"a", "/", "c", ".", "h", "t", "m", "l">>
  /\ (pc = "renormalized" /\ ~HasHash(baseDir)) => npath2 = npath

NormalizeExample ==
  /\ pc = "renormalized"
  /\ baseDir = <<"a", "/", "b", "/">>
  /\ href = <<".", ".", "/", "c", ".", "h", "t", "m", "l">>
  /\ npath = <<"a", "/", "c", ".", "h", "t", "m", "l">>
  /\ npath2 = <<"a", "/", "c", ".", "h", "t", "m", "l">>

(***************************************************************************)
(* Properties of findOpfPath.                                              *)
(***************************************************************************)
\* C9: for a container.xml whose rootfile declaration carries a full-path
\* attribute, findOpfPath returns exactly the path named in full-path,
\* wherever the attribute stands among the others and whether its value is
\* written in double or in single quotes.
C9_ExactFullPath ==
  pc # "findOpfPath" =>
    /\ pc = "extractSpine"
    /\ opfPath = form.container.fullPath

\* the same for declarations that write full-path in double quotes
ExactFullPathDoubleQuoted ==
  (pc # "findOpfPath" /\ form.container.quote = "\"") =>
    /\ pc = "extractSpine"
    /\ opfPath = form.container.fullPath

(***************************************************************************)
(* Properties of the EPUB import handler.                                  *)
(***************************************************************************)
NoContainer == containerEntry(files) = 0

NoFullPath ==
  /\ containerEntry(files) # 0
  /\ \A p \in 1..Len(files[containerEntry(files)].data) :
       ~matchesAtCI(files[containerEntry(files)].data, p, <<"f", "u", "l", "l", "-", "p", "a", "t", "h">>)

PackageAbsent ==
  /\ findOpfPath(files).ok
  /\ entryOf(files, findOpfPath(files).value) = 0

NoTextDocument ==
  /\ findOpfPath(files).ok
  /\ entryOf(files, findOpfPath(files).value) # 0
  /\ extractSpineHtmlPaths(files, findOpfPath(files).value,
                           files[entryOf(files, findOpfPath(files).value)].data) = <<>>

Aborted ==
  /\ calls = <<>>
  /\ zipFiles = EmptyFiles
  /\ pc \notin {"chunkWords", "chunkLoop", "chunked", "p2loop", "p2await"}
  /\ pc = "done" => status \in {StatusBadRequest, StatusError}

\* C10: when the archive has no entry ending in META-INF/container.xml, or
\* that entry has no full-path attribute, or full-path names a path absent
\* from the archive, or neither the spine nor the fallback yields a text
\* document, the request ends with a failure status and no archive body,
\* before fragmentation, and the generator is never called.
C10_StructuralErrorsAbort ==
  (form.file = "epub"
   /\ (NoContainer \/ NoFullPath \/ PackageAbsent \/ NoTextDocument)) => Aborted

\* the same without the case of a full-path naming an absent entry
StructuralErrorsAbortPackagePresent ==
  (form.file = "epub" /\ (NoContainer \/ NoFullPath \/ NoTextDocument)) => Aborted

\* the upload is missing or is not an EPUB upload
UploadInvalid == form.file \in {"notMultipart", "none", "notEpub"}

\* the text extracted from the resolved documents is empty or below the floor
TextBelowFloor ==
  /\ htmlPaths # <<>>
  /\ Len(trim(combineDocs(files, htmlPaths))) < MinTextLength

\* C11: when the upload is missing, or the text extracted from the EPUB is
\* empty or shorter than the minimum length, the request answers a failure
\* status without an archive body, and no generator call has been made.
C11_InputErrorsRejected ==
  (UploadInvalid \/ TextBelowFloor) =>
    /\ calls = <<>>
    /\ zipFiles = EmptyFiles
    /\ pc \in {"p2request", "combine", "done"}
    /\ pc = "done" => status = StatusBadRequest

C11_Witness ==
  /\ pc = "done"
  /\ TextBelowFloor
  /\ combineDocs(files, htmlPaths) # <<>>
  /\ status = StatusBadRequest
  /\ calls = <<>>

(***************************************************************************)
(* Properties of extractSpineHtmlPaths.                                    *)
(***************************************************************************)
Declared(idref) == \E k \in 1..Len(ManifestItems) : ManifestItems[k].id = idref

hrefOf(idref) ==
  ManifestItems[CHOOSE k \in 1..Len(ManifestItems) : ManifestItems[k].id = idref].href

\* the path a spine entry stands for, <<>> for an undeclared idref
resolved(idref) ==
  IF Declared(idref) THEN normalizePath(baseDirOf(opfPath), hrefOf(idref)) ELSE <<>>

Usable(path) == hasTextExt(path) /\ \E k \in 1..Len(files) : files[k].path = path

\* the spine in document order without the entries that are dropped
ReadingOrder ==
  SelectSeq([k \in 1..Len(form.spine) |-> resolved(form.spine[k])], Usable)

\* C12: when the spine has at least one usable entry, the reading order is
\* the spine's itemrefs in document order, each mapped through the manifest
\* and normalized against the package document's directory, without the
\* entries whose idref is unknown, whose path has no text-document extension
\* or is no archive key; dropping an entry never causes an error.
C12_SpineOrder ==
  (pc # "extractSpine" /\ ReadingOrder # <<>>) =>
    /\ pc = "combine"
    /\ htmlPaths = ReadingOrder

\* the same for spines whose idrefs are no property names of Object.prototype
SpineOrderOwnKeys ==
  (pc # "extractSpine" /\ ReadingOrder # <<>>
   /\ \A k \in 1..Len(form.spine) : form.spine[k] \notin InheritedKeys) =>
    /\ pc = "combine"
    /\ htmlPaths = ReadingOrder
    /\ \A k \in 1..Len(htmlPaths) : entryOf(files, htmlPaths[k]) # 0

(***************************************************************************)
(* Properties of the fallback.                                             *)
(***************************************************************************)
\* the characters of archive paths in increasing code order
CodeOrder == <<" ", "#", "-", ".", "/", "0", "1", "2", "3", "4", "5", "6", "7", "8", "9", "A", "B", "C", "D", "E", "F", "G", "H", "I", "J", "K", "L", "M", "N", "O", "P", "Q", "R", "S", "T", "U", "V", "W", "X", "Y", "Z", "_", "a", "b", "c", "d", "e", "f", "g", "h", "i", "j", "k", "l", "m", "n", "o", "p", "q", "r", "s", "t", "u", "v", "w", "x", "y", "z">>

\* rank of a character's code among the codes of the path characters
byteOf(c) == CHOOSE k \in 1..Len(CodeOrder) : CodeOrder[k] = c

\* byte-wise lexicographic order of two paths
byteLess(a, b) ==
  lexLess([k \in 1..Len(a) |-> byteOf(a[k])], [k \in 1..Len(b) |-> byteOf(b[k])])

TextKeys == {files[k].path : k \in {j \in 1..Len(files) : hasTextExt(files[j].path)}}

FallbackResult ==
  /\ {htmlPaths[k] : k \in 1..Len(htmlPaths)} = TextKeys
  /\ Len(htmlPaths) = Cardinality(TextKeys)
  /\ TextKeys # {} => pc = "combine"

\* C13: the fallback is used exactly when the spine yields no usable entry;
\* it returns every archive key with a text-document extension, each once,
\* in byte-wise lexicographic order of the paths, and its result is not
\* empty when the archive holds a text document.
C13_FallbackByteOrder ==
  pc # "extractSpine" =>
    /\ ReadingOrder # <<>> => htmlPaths = ReadingOrder
    /\ ReadingOrder = <<>> =>
         /\ FallbackResult
         /\ \A j, k \in 1..Len(htmlPaths) :
              j < k => byteLess(htmlPaths[j], htmlPaths[k])

\* the same without the order of the result
FallbackKeys ==
  pc # "extractSpine" =>
    /\ ReadingOrder # <<>> => htmlPaths = ReadingOrder
    /\ ReadingOrder = <<>> => FallbackResult

(***************************************************************************)
(* Properties of stripHtml.                                                *)
(***************************************************************************)
\* the tag-stripping rule /<[^>]+>/ matches somewhere in t
HasTag(t) == \E p \in 1..Len(t) : tagLen(t, p) > 0

\* C14: for every document the output of stripHtml holds no raw tag syntax
\* (nothing the tag-stripping rule would match), also when the document holds
\* the entities &lt; and &gt;, which a later step of the same pass decodes.
C14_NoRawTags ==
  pc \in {"stripped", "strippedIndex"} => ~HasTag(stripped)

\* the same for the stripHtml of index.ts, which decodes no entities
NoRawTagsIndex ==
  pc = "strippedIndex" => ~HasTag(stripped)

(***************************************************************************)
(* Properties of the manifest.                                             *)
(***************************************************************************)
\* the manifest the code reads from the package document of the archive
ManifestRead ==
  manifestOf(matchTags(files[1].data, <<"i", "t", "e", "m">>), EmptyFiles)

ManifestMaps ==
  /\ form.item.id \in DOMAIN ManifestRead
  /\ ManifestRead[form.item.id] = form.item.href
  /\ (pc = "combine" /\ Len(files) > 1) =>
       htmlPaths = <<normalizePath(baseDirOf(opfPath), form.item.href)>>
  /\ (pc = "combine" /\ form.item.id = <<"c", "1">> /\ form.item.href = <<"t", "e", "x", "t", "/", "c", "h", "1", ".", "x", "h", "t", "m", "l">>) =>
       htmlPaths = <<<<"O", "E", "B", "P", "S", "/", "t", "e", "x", "t", "/", "c", "h", "1", ".", "x", "h", "t", "m", "l">>>>

\* C15: for every manifest item declaration with an id I and an href H the
\* manifest maps I to H, whatever the order of the attributes, the quote
\* character and the other attributes of the tag, also ones whose names end
\* in "id" or "href"; id "c1" with href "text/ch1.xhtml" under
\* "OEBPS/content.opf" resolves to "OEBPS/text/ch1.xhtml".
C15_TolerantManifest == pc # "extractSpine" => ManifestMaps

\* the same for declarations with no other attribute named ...id or ...href
\* ahead of id and href
TolerantManifestPlainNames ==
  (/\ pc # "extractSpine"
   /\ \/ form.item.extra = <<>>
      \/ form.item.extraAt = "last"
      \/ form.item.extra[1].name \in {<<"m", "e", "d", "i", "a", "-", "t", "y", "p", "e">>, <<"p", "r", "o", "p", "e", "r", "t", "i", "e", "s">>}) => ManifestMaps

(***************************************************************************)
(* Properties of resuming.                                                 *)
(***************************************************************************)
\* the fragments an invocation handed to the generator: index and text
processed(cs) == [k \in 1..Len(cs) |-> [index |-> cs[k].index, text |-> cs[k].text]]

\* the last two invocations took startFrom=1, maxFragments=k and
\* startFrom=k+1, maxFragments=m, this one takes startFrom=1,
\* maxFragments=k+m, and the generator succeeded throughout
SplitRun ==
  /\ pc = "done"
  /\ Len(history) >= 2
  /\ history[Len(history) - 1].partialError = <<>>
  /\ history[Len(history)].partialError = <<>>
  /\ partialError = <<>>
  /\ history[Len(history) - 1].startFrom = 1
  /\ history[Len(history)].startFrom = history[Len(history) - 1].maxFragments + 1
  /\ startFrom = 1
  /\ maxFragments = history[Len(history) - 1].maxFragments
                    + history[Len(history)].maxFragments

\* the last invocation failed at fragment j and this one takes startFrom=j
RetryRun ==
  /\ pc \notin {"request", "chunkWords", "chunkLoop", "chunked"}
  /\ history # <<>>
  /\ history[Len(history)].partialError # <<>>
  /\ startFrom = history[Len(history)].partialError[1].fragment

\* C16: with the text and targetWords fixed and a generator that succeeds,
\* the fragments (index and text) processed with startFrom=1, maxFragments=k
\* and then with startFrom=k+1, maxFragments=m are those processed with
\* startFrom=1, maxFragments=k+m; and after a failure reported for fragment
\* j an invocation with startFrom=j attempts that fragment first.
C16_ResumeWithoutDrift ==
  /\ SplitRun =>
       processed(history[Len(history) - 1].calls)
         \o processed(history[Len(history)].calls) = processed(calls)
  /\ RetryRun =>
       /\ pc = "done" => calls # <<>>
       /\ calls # <<>> =>
            /\ calls[1].index = startFrom
            /\ calls[1].text =
                 history[Len(history)].calls[Len(history[Len(history)].calls)].text

C16_Witness ==
  /\ SplitRun
  /\ Len(calls) = 2
  /\ calls[2].index = 2
  /\ Len(history[Len(history)].calls) = 1
  /\ history[Len(history)].calls[1].index = 2

====
